---- MODULE Spec2Model ----
(***************************************************************************)
(* Model of the RalfApp backend: the chunked upload protocol               *)
(* (app/websocket.py, app/routers/upload.py) and the analysis job          *)
(* lifecycle (app/routers/analysis.py, app/tasks.py).                      *)
(*                                                                         *)
(* The database rows are functions whose DOMAIN grows; every handler keeps *)
(* its own copy of the ORM object it loaded (the sessions are created with *)
(* expire_on_commit=False, app/database.py:12), and a commit writes only   *)
(* the attributes whose value differs from that copy.                      *)
(***************************************************************************)
EXTENDS Integers, Sequences, FiniteSets, Bags, TLC

\* ------------------------------------------------------------------ bounds
MaxFrames   == 3        \* frames sent by the clients over all connections
MaxIndex    == 1        \* largest chunk_index a client sends
MaxTime     == 2        \* clock ticks
MaxJobs     == 2        \* create_analysis requests admitted
MaxRuns     == 5        \* runs of the analyze_video task body, over all jobs


Conns == {1, 2}         \* upload connections, numbered in the order accepted
Tokens == {"t1"}        \* values secrets.token_urlsafe(32) can return
Users == {"u1"}         \* authenticated users
NConns == {1, 2}        \* notification connections, numbered in the order accepted
StoredVideos == {1}     \* ids of the videos stored by simple_upload

\* ------------------------------------------------------- program constants
SessionTTL == 1         \* timedelta(hours=24), in clock ticks
max_retries == 3        \* @celery_app.task(bind=True, max_retries=3)
RetryCountdown == 60    \* task.retry(countdown=60, exc=e)

AnalysisTypes == {"metadata_extraction", "scene_detection"}

\* --------------------------------------------------------------- variables
VARIABLES
    now,              \* datetime.utcnow()
    sessions,         \* table upload_sessions, keyed by session_token
    videos,           \* table videos, keyed by id
    c_pc,             \* per upload connection: "idle", "open", "closed"
    c_tok,            \* per upload connection: the session_token of its URL
    orm,              \* per upload connection: its loaded UploadSession object
    received_chunks,  \* per upload connection: the local set received_chunks
    chunk_data,       \* per upload connection: the local dict chunk_data
    files,            \* per upload connection: the bytes written to file_path
    sent,             \* per upload connection: the frames the client has sent
    reply,            \* per upload connection: frames sent by the last handler
    analysis_queue,   \* messages published on "video_analysis_queue"
    seq,              \* number of ids handed out so far, per table
    analyses,         \* table video_analysis, keyed by id
    creating,         \* create_analysis requests between their check and insert
    deleting,         \* delete_analysis requests between their check and delete
    exec,             \* per analysis id: the analyze_video task queued for it
    runs,             \* per analysis id: how often the task body has run
    n_pc,             \* per notifications connection: "idle", "poll" (at
                      \* pubsub.get_message), "recv" (at receive_text),
                      \* "gone" (client left, loop still running), "closed"
    n_user,           \* per notifications connection: the user of its token
    pubsub,           \* per notifications connection: messages its Redis
                      \* subscription holds and get_message has not returned
    got,              \* per notifications connection: frames sent to the client
    n_since,          \* per notifications connection: number of messages
                      \* published before it subscribed
    published,        \* number of messages published so far
    active_connections, \* ConnectionManager.active_connections: client id
                      \* to the connection registered under it
    last              \* the REST request handled by the last step and its
                      \* response, or the task run of the last step and what
                      \* it published; "none" after any other step

conn_vars == <<c_pc, c_tok, orm, received_chunks, chunk_data, files, sent, reply>>
upload_vars == <<sessions, analysis_queue, conn_vars>>
job_vars == <<analyses, creating, deleting, exec, runs>>
notif_vars == <<n_pc, n_user, pubsub, got, n_since, published>>
vars == <<now, videos, seq, upload_vars, job_vars, notif_vars, active_connections, last>>

\* ------------------------------------------------------------ Python dicts
\* A dict is a sequence of <<key, value>> pairs in insertion order with
\* distinct keys: assigning to an existing key keeps its position.
DictKeys(d) == {d[n][1] : n \in 1..Len(d)}

DictGet(d, k) == d[CHOOSE n \in 1..Len(d) : d[n][1] = k][2]

\* d.setdefault(k, v): an existing key keeps its first value
DictSetDefault(d, k, v) ==
    IF k \in DictKeys(d) THEN d ELSE Append(d, <<k, v>>)

DictSet(d, k, v) ==
    IF k \in DictKeys(d)
    THEN [n \in 1..Len(d) |-> IF d[n][1] = k THEN <<k, v>> ELSE d[n]]
    ELSE Append(d, <<k, v>>)

\* ----------------------------------------------------------------- base64
\* The wire form of a chunk is text over the base64 alphabet; b64decode maps
\* each symbol back to its value and raises on text it cannot decode.
B64Alphabet == <<"A", "B", "C", "D">>

B64Error == <<-1>>

B64Value(ch) == (CHOOSE n \in 1..Len(B64Alphabet) : B64Alphabet[n] = ch) - 1

b64decode(text) ==
    IF \A n \in 1..Len(text) : \E m \in 1..Len(B64Alphabet) : B64Alphabet[m] = text[n]
    THEN [n \in 1..Len(text) |-> B64Value(text[n])]
    ELSE B64Error

b64encode(bytes) == [n \in 1..Len(bytes) |-> B64Alphabet[bytes[n] + 1]]

\* what a client puts in a chunk frame: the encoding of some bytes, or text
\* that is not base64
Contents == {<<1>>, <<2, 3>>}

ClientData == {[bytes |-> b, text |-> b64encode(b)] : b \in Contents}
                  \cup {[bytes |-> <<>>, text |-> <<"=">>]}

\* ------------------------------------------------------------ file assembly
\* for i in range(total_chunks): if i in chunk_data: f.write(chunk_data[i])
RECURSIVE WriteFrom(_, _, _)
WriteFrom(cd, i, total) ==
    IF i >= total THEN <<>>
    ELSE (IF i \in DictKeys(cd) THEN DictGet(cd, i) ELSE <<>>)
         \o WriteFrom(cd, i + 1, total)

\* for i in chunk_data: f.write(chunk_data[i]) -- the order of arrival
WriteFileInArrivalOrder(cd, total) ==
    LET RECURSIVE Cat(_)
        Cat(n) == IF n > Len(cd) THEN <<>> ELSE cd[n][2] \o Cat(n + 1)
    IN Cat(1)

WriteFile(cd, total) == WriteFrom(cd, 0, total)

\* ------------------------------------------------------------------- Init
NoRequest == [op |-> "none"]

EmptyMap == [x \in {} |-> 0]

Init ==
    /\ now = 0
    /\ sessions = EmptyMap
    /\ videos = EmptyMap
    /\ analysis_queue = {}
    /\ seq = [video |-> 0, analysis |-> 0]
    /\ analyses = EmptyMap
    /\ creating = EmptyBag
    /\ deleting = {}
    /\ exec = EmptyMap
    /\ runs = EmptyMap
    /\ c_pc = [c \in Conns |-> "idle"]
    /\ c_tok = [c \in Conns |-> ""]
    /\ orm = [c \in Conns |-> [status |-> "", uploaded_chunks |-> 0, total_chunks |-> 0]]
    /\ received_chunks = [c \in Conns |-> {}]
    /\ chunk_data = [c \in Conns |-> <<>>]
    /\ files = [c \in Conns |-> <<>>]
    /\ sent = [c \in Conns |-> <<>>]
    /\ reply = [c \in Conns |-> <<>>]
    /\ n_pc = [n \in NConns |-> "idle"]
    /\ n_user = [n \in NConns |-> ""]
    /\ pubsub = [n \in NConns |-> <<>>]
    /\ got = [n \in NConns |-> <<>>]
    /\ n_since = [n \in NConns |-> 0]
    /\ published = 0
    /\ active_connections = EmptyMap
    /\ last = NoRequest

\* ------------------------------------------------------------------- clock
\* The code only compares expires_at with the clock, so behaviours are the
\* same up to a shift of the time axis: the clock is started by the first
\* session.
Tick ==
    /\ now < MaxTime
    /\ DOMAIN sessions # {}
    /\ now' = now + 1
    /\ last' = NoRequest
    /\ UNCHANGED <<videos, seq, upload_vars, job_vars, notif_vars, active_connections>>

\* ------------------------------------------- POST /session (upload.py:16-43)
FileSizes  == {1, 3}
ChunkSizes == {0, 2}

\* the sizes a request body can carry: UploadSessionCreate declares two
\* plain ints without validators (schemas.py:65-68)
AnyFileSizes  == {-1, 0, 1, 3}
AnyChunkSizes == {-2, 0, 2}

\* Python's a // b for b # 0: the quotient rounded towards minus infinity
FloorDiv(a, b) ==
    LET Abs(x) == IF x < 0 THEN -x ELSE x
        q == Abs(a) \div Abs(b)
    IN IF (a < 0) = (b < 0) THEN q
       ELSE IF q * Abs(b) = Abs(a) THEN -q ELSE -q - 1

\* (file_size + chunk_size - 1) // chunk_size
TotalChunks(file_size, chunk_size) == FloorDiv(file_size + chunk_size - 1, chunk_size)

create_upload_session(user, file_size, chunk_size) ==
    /\ IF chunk_size = 0
       THEN \* ZeroDivisionError: the request fails and nothing is stored
            /\ last' = [op |-> "create_upload_session", code |-> 500,
                        file_size |-> file_size, chunk_size |-> chunk_size,
                        token |-> "none"]
            /\ UNCHANGED sessions
       ELSE \E token \in Tokens \ DOMAIN sessions :
            LET row == [user_id |-> user,
                        file_size |-> file_size,
                        chunk_size |-> chunk_size,
                        total_chunks |-> TotalChunks(file_size, chunk_size),
                        uploaded_chunks |-> 0,
                        status |-> "active",
                        expires_at |-> now + SessionTTL]
            IN /\ sessions' = [t \in DOMAIN sessions \cup {token} |->
                                  IF t = token THEN row ELSE sessions[t]]
               /\ last' = [op |-> "create_upload_session", code |-> 200,
                           file_size |-> file_size, chunk_size |-> chunk_size,
                           token |-> token]
    /\ UNCHANGED <<now, videos, seq, analysis_queue, conn_vars, job_vars, notif_vars, active_connections>>

\* ------------------------------- DELETE /session/{token} (upload.py:123-146)
cancel_upload_session(user, token) ==
    /\ IF token \notin DOMAIN sessions \/ sessions[token].user_id # user
       THEN /\ last' = [op |-> "cancel_upload_session", token |-> token, code |-> 404]
            /\ UNCHANGED sessions
       ELSE /\ sessions' = [sessions EXCEPT ![token].status = "cancelled"]
            /\ last' = [op |-> "cancel_upload_session", token |-> token, code |-> 200]
    /\ UNCHANGED <<now, videos, seq, analysis_queue, conn_vars, job_vars, notif_vars, active_connections>>

\* ------------------------------- ConnectionManager (websocket.py:20-43)
\* client ids: f"upload_{session_token}" and f"notifications_{user_id}"
UploadClient(token) == <<"upload", token>>
NotificationsClient(user) == <<"notifications", user>>

\* manager.connect: self.active_connections[client_id] = websocket
ManagerConnect(reg, client_id, ws) ==
    [k \in DOMAIN reg \cup {client_id} |-> IF k = client_id THEN ws ELSE reg[k]]

\* manager.disconnect: del self.active_connections[client_id], if it is there
ManagerDisconnect(reg, client_id) ==
    [k \in DOMAIN reg \ {client_id} |-> reg[k]]

\* ------------------------- WS /upload/{session_token} (websocket.py:45-205)
SetConn(f, c, v) == [f EXCEPT ![c] = v]

FramesSent == LET RECURSIVE Sum(_)
                  Sum(S) == IF S = {} THEN 0
                            ELSE LET c == CHOOSE x \in S : TRUE
                                 IN Len(sent[c]) + Sum(S \ {c})
              IN Sum(Conns)

\* websocket.py:46-105: accept and register, load the session, check it,
\* announce it; a refused connection leaves through the finally clause
\* (websocket.py:204-205)
websocket_upload_connect(c, token) ==
    /\ c_pc[c] = "idle"
    /\ \A b \in Conns : b < c => c_pc[b] # "idle"
    /\ c_tok' = SetConn(c_tok, c, token)
    /\ active_connections' =
          LET reg == ManagerConnect(active_connections, UploadClient(token), c)
          IN IF \/ token \notin DOMAIN sessions
                \/ sessions[token].expires_at < now
                \/ sessions[token].status # "active"
             THEN ManagerDisconnect(reg, UploadClient(token))
             ELSE reg
    /\ IF token \notin DOMAIN sessions
       THEN /\ reply' = SetConn(reply, c, <<[type |-> "error", message |-> "Invalid session token"]>>)
            /\ c_pc' = SetConn(c_pc, c, "closed")
            /\ UNCHANGED orm
       ELSE IF sessions[token].expires_at < now
       THEN /\ reply' = SetConn(reply, c, <<[type |-> "error", message |-> "Session expired"]>>)
            /\ c_pc' = SetConn(c_pc, c, "closed")
            /\ UNCHANGED orm
       ELSE IF sessions[token].status # "active"
       THEN /\ reply' = SetConn(reply, c, <<[type |-> "error", message |-> "Session is not active"]>>)
            /\ c_pc' = SetConn(c_pc, c, "closed")
            /\ UNCHANGED orm
       ELSE /\ reply' = SetConn(reply, c, <<[type |-> "session_info",
                                             total_chunks |-> sessions[token].total_chunks,
                                             uploaded_chunks |-> sessions[token].uploaded_chunks]>>)
            /\ c_pc' = SetConn(c_pc, c, "open")
            /\ orm' = SetConn(orm, c, [status |-> sessions[token].status,
                                       uploaded_chunks |-> sessions[token].uploaded_chunks,
                                       total_chunks |-> sessions[token].total_chunks])
    /\ last' = NoRequest
    /\ UNCHANGED <<now, sessions, videos, seq, analysis_queue, received_chunks,
                   chunk_data, files, sent, job_vars, notif_vars>>

\* db.commit() of the connection's UploadSession object: an UPDATE of the
\* attributes that differ from the object's last known values
CommitSession(row, known, new) ==
    [row EXCEPT !.uploaded_chunks = IF new.uploaded_chunks # known.uploaded_chunks
                                    THEN new.uploaded_chunks ELSE @,
                !.status = IF new.status # known.status THEN new.status ELSE @]

\* websocket.py:112-178, and 194-200 when the frame cannot be decoded. With
\* whole the step is the whole pass through the loop body; without it a pass
\* that completes the upload stops behind the commit of websocket.py:157-159,
\* at the await of the upload_complete frame.
chunk_frame_upto(c, chunk_index, data, whole) ==
    LET token   == c_tok[c]
        frame   == [type |-> "chunk", chunk_index |-> chunk_index,
                    chunk_data |-> data.text, bytes |-> data.bytes]
        content == b64decode(frame.chunk_data)
        cd      == DictSet(chunk_data[c], chunk_index, content)
        rc      == received_chunks[c] \cup {chunk_index}
        total   == orm[c].total_chunks
        obj1    == [orm[c] EXCEPT !.uploaded_chunks = Cardinality(rc)]
        row1    == CommitSession(sessions[token], orm[c], obj1)
        progress == [type |-> "progress", chunk_index |-> chunk_index,
                     uploaded_chunks |-> Cardinality(rc), total_chunks |-> total]
        obj2    == [obj1 EXCEPT !.status = "completed"]
        row2    == CommitSession(row1, obj1, obj2)
        vid     == seq.video + 1
        video   == [user_id |-> sessions[token].user_id, file |-> c,
                    file_size |-> sessions[token].file_size,
                    upload_status |-> "completed"]
    IN
    /\ c_pc[c] = "open"
    /\ FramesSent < MaxFrames
    /\ sent' = SetConn(sent, c, Append(sent[c], frame))
    /\ last' = NoRequest
    /\ IF content = B64Error
       THEN /\ reply' = SetConn(reply, c, <<[type |-> "error", message |-> "binascii.Error"]>>)
            /\ c_pc' = SetConn(c_pc, c, "closed")
            /\ UNCHANGED <<sessions, videos, seq, analysis_queue, orm, received_chunks,
                           chunk_data, files>>
       ELSE /\ chunk_data' = SetConn(chunk_data, c, cd)
            /\ received_chunks' = SetConn(received_chunks, c, rc)
            /\ IF Cardinality(rc) = total
               THEN /\ files' = SetConn(files, c, WriteFile(cd, total))
                    /\ videos' = [v \in DOMAIN videos \cup {vid} |->
                                    IF v = vid THEN video ELSE videos[v]]
                    /\ seq' = [seq EXCEPT !.video = vid]
                    /\ sessions' = [sessions EXCEPT ![token] = row2]
                    /\ orm' = SetConn(orm, c, obj2)
                    /\ reply' = SetConn(reply, c,
                                    IF whole
                                    THEN <<progress,
                                           [type |-> "upload_complete", video_id |-> vid]>>
                                    ELSE <<progress>>)
                    /\ analysis_queue' =
                           IF whole
                           THEN analysis_queue \cup
                                  {[video_id |-> vid, analysis_type |-> "metadata_extraction"]}
                           ELSE analysis_queue
                    /\ c_pc' = SetConn(c_pc, c, IF whole THEN "closed" ELSE "completing")
               ELSE /\ sessions' = [sessions EXCEPT ![token] = row1]
                    /\ orm' = SetConn(orm, c, obj1)
                    /\ reply' = SetConn(reply, c, <<progress>>)
                    /\ UNCHANGED <<files, videos, seq, analysis_queue, c_pc>>
    /\ active_connections' = IF c_pc'[c] = "closed"
                             THEN ManagerDisconnect(active_connections, UploadClient(token))
                             ELSE active_connections
    /\ UNCHANGED <<now, c_tok, job_vars, notif_vars>>

chunk_frame(c, chunk_index, data) == chunk_frame_upto(c, chunk_index, data, TRUE)

\* websocket.py:160-178 and 204-205: behind the commit, send upload_complete
\* for the video just created, publish the trigger and leave
chunk_complete_send(c) ==
    LET vid == CHOOSE v \in DOMAIN videos : videos[v].file = c
    IN
    /\ c_pc[c] = "completing"
    /\ reply' = SetConn(reply, c, <<[type |-> "upload_complete", video_id |-> vid]>>)
    /\ analysis_queue' = analysis_queue \cup
           {[video_id |-> vid, analysis_type |-> "metadata_extraction"]}
    /\ c_pc' = SetConn(c_pc, c, "closed")
    /\ active_connections' = ManagerDisconnect(active_connections, UploadClient(c_tok[c]))
    /\ last' = NoRequest
    /\ UNCHANGED <<now, sessions, videos, seq, c_tok, orm, received_chunks, chunk_data,
                   files, sent, job_vars, notif_vars>>

\* websocket.py:180-189
cancel_frame(c) ==
    LET token == c_tok[c]
        frame == [type |-> "cancel", chunk_index |-> -1, chunk_data |-> <<>>,
                  bytes |-> <<>>]
        obj   == [orm[c] EXCEPT !.status = "cancelled"]
    IN
    /\ c_pc[c] = "open"
    /\ FramesSent < MaxFrames
    /\ sent' = SetConn(sent, c, Append(sent[c], frame))
    /\ sessions' = [sessions EXCEPT ![token] = CommitSession(@, orm[c], obj)]
    /\ orm' = SetConn(orm, c, obj)
    /\ reply' = SetConn(reply, c, <<[type |-> "upload_cancelled"]>>)
    /\ c_pc' = SetConn(c_pc, c, "closed")
    /\ last' = NoRequest
    /\ active_connections' = ManagerDisconnect(active_connections, UploadClient(token))
    /\ UNCHANGED <<now, videos, seq, analysis_queue, c_tok, received_chunks, chunk_data,
                   files, job_vars, notif_vars>>

\* websocket.py:107-112 and 180: a frame that is JSON with a "type" that is
\* neither "chunk" nor "cancel" matches no branch; the loop takes the next
\* frame
unknown_frame(c) ==
    LET frame == [type |-> "ping", chunk_index |-> -1, chunk_data |-> <<>>,
                  bytes |-> <<>>]
    IN
    /\ c_pc[c] = "open"
    /\ FramesSent < MaxFrames
    /\ sent' = SetConn(sent, c, Append(sent[c], frame))
    /\ reply' = SetConn(reply, c, <<>>)
    /\ last' = NoRequest
    /\ UNCHANGED <<now, sessions, videos, seq, analysis_queue, c_pc, c_tok, orm,
                   received_chunks, chunk_data, files, job_vars, notif_vars,
                   active_connections>>

\* websocket.py:191-193 and 204-205: the client goes away
websocket_disconnect(c) ==
    /\ c_pc[c] = "open"
    /\ c_pc' = SetConn(c_pc, c, "closed")
    /\ reply' = SetConn(reply, c, <<>>)
    /\ last' = NoRequest
    /\ active_connections' = ManagerDisconnect(active_connections, UploadClient(c_tok[c]))
    /\ UNCHANGED <<now, sessions, videos, seq, analysis_queue, c_tok, orm,
                   received_chunks, chunk_data, files, sent, job_vars, notif_vars>>

\* ------------------------------------------ POST /simple (upload.py:73-121)
simple_upload(user, is_video) ==
    /\ seq.video + 1 \in StoredVideos
    /\ IF ~is_video
       THEN /\ last' = [op |-> "simple_upload", code |-> 400]
            /\ UNCHANGED <<videos, seq>>
       ELSE LET vid == seq.video + 1
                video == [user_id |-> user, file |-> 0, file_size |-> 1,
                          upload_status |-> "completed"]
            IN /\ videos' = [v \in DOMAIN videos \cup {vid} |->
                               IF v = vid THEN video ELSE videos[v]]
               /\ seq' = [seq EXCEPT !.video = vid]
               /\ last' = [op |-> "simple_upload", code |-> 200]
    /\ UNCHANGED <<now, upload_vars, notif_vars, active_connections, job_vars>>

\* ---------------------------- POST /analysis/{video_id} (analysis.py:13-72)
InFlight(video_id, analysis_type) ==
    {a \in DOMAIN analyses : /\ analyses[a].video_id = video_id
                             /\ analyses[a].analysis_type = analysis_type
                             /\ analyses[a].status \in {"pending", "running"}}

\* the request and its answer; analysis_id is the id in the body, 0 if none
CreateResponse(video_id, analysis_type, code, detail, analysis_id) ==
    [op |-> "create_analysis", video_id |-> video_id, analysis_type |-> analysis_type,
     code |-> code, detail |-> detail, analysis_id |-> analysis_id]

\* a handler whose select of the video leaves out Video.user_id
create_analysis_check_any_owner(user, video_id, analysis_type) ==
    /\ seq.analysis + BagCardinality(creating) < MaxJobs
    /\ IF video_id \notin DOMAIN videos
       THEN /\ last' = CreateResponse(video_id, analysis_type, 404, "Video not found", 0)
            /\ UNCHANGED creating
       ELSE IF videos[video_id].upload_status # "completed"
       THEN /\ last' = CreateResponse(video_id, analysis_type, 400, "Video upload is not completed", 0)
            /\ UNCHANGED creating
       ELSE IF InFlight(video_id, analysis_type) # {}
       THEN /\ last' = CreateResponse(video_id, analysis_type, 400, "already pending or running", 0)
            /\ UNCHANGED creating
       ELSE /\ creating' = creating (+) SetToBag({[video_id |-> video_id,
                                                   analysis_type |-> analysis_type]})
            /\ last' = NoRequest
    /\ UNCHANGED <<now, videos, seq, upload_vars, notif_vars, active_connections, analyses, deleting, exec, runs>>

\* analysis.py:21-56: the two selects and the rejections they lead to
create_analysis_check(user, video_id, analysis_type) ==
    /\ seq.analysis + BagCardinality(creating) < MaxJobs
    /\ IF video_id \notin DOMAIN videos \/ videos[video_id].user_id # user
       THEN /\ last' = CreateResponse(video_id, analysis_type, 404, "Video not found", 0)
            /\ UNCHANGED creating
       ELSE IF videos[video_id].upload_status # "completed"
       THEN /\ last' = CreateResponse(video_id, analysis_type, 400, "Video upload is not completed", 0)
            /\ UNCHANGED creating
       ELSE IF InFlight(video_id, analysis_type) # {}
       THEN /\ last' = CreateResponse(video_id, analysis_type, 400, "already pending or running", 0)
            /\ UNCHANGED creating
       ELSE /\ creating' = creating (+) SetToBag({[video_id |-> video_id,
                                                   analysis_type |-> analysis_type]})
            /\ last' = NoRequest
    /\ UNCHANGED <<now, videos, seq, upload_vars, notif_vars, active_connections, analyses, deleting, exec, runs>>

\* a task: its position, request.retries, the countdown it was queued with and
\* the exception its last run ended with
NewTask == [pc |-> "queued", retries |-> 0, countdown |-> 0, exc |-> "none"]

\* analysis.py:58-72: insert the record, queue the task, answer
create_analysis_insert(req) ==
    /\ BagIn(req, creating)
    /\ creating' = creating (-) SetToBag({req})
    /\ IF req.video_id \notin DOMAIN videos
       THEN \* the foreign key video_analysis.video_id rejects the insert
            /\ last' = CreateResponse(req.video_id, req.analysis_type, 500, "IntegrityError", 0)
            /\ UNCHANGED <<seq, analyses, exec, runs>>
       ELSE LET id == seq.analysis + 1
                row == [video_id |-> req.video_id,
                        analysis_type |-> req.analysis_type,
                        status |-> "pending",
                        result |-> "null",
                        error_message |-> "null"]
            IN /\ seq' = [seq EXCEPT !.analysis = id]
               /\ analyses' = [a \in DOMAIN analyses \cup {id} |->
                                 IF a = id THEN row ELSE analyses[a]]
               /\ exec' = [a \in DOMAIN exec \cup {id} |->
                             IF a = id THEN NewTask ELSE exec[a]]
               /\ runs' = [a \in DOMAIN runs \cup {id} |->
                             IF a = id THEN 0 ELSE runs[a]]
               /\ last' = CreateResponse(req.video_id, req.analysis_type, 200, "", id)
    /\ UNCHANGED <<now, videos, upload_vars, notif_vars, active_connections, deleting>>

\* ------------------------------------- analyze_video (tasks.py:266-370)
\* task.retry(countdown=60, exc=e): requeue while request.retries is below
\* max_retries, otherwise re-raise exc and end the task
\* the same with the comparison off by one: one retry too many
TaskRetryOneMore(t, e) ==
    IF t.retries <= max_retries
    THEN [pc |-> "queued", retries |-> t.retries + 1, countdown |-> RetryCountdown,
          exc |-> e]
    ELSE [t EXCEPT !.pc = "done", !.exc = e]

TaskRetry(t, e) ==
    IF t.retries < max_retries
    THEN [pc |-> "queued", retries |-> t.retries + 1, countdown |-> RetryCountdown,
          exc |-> e]
    ELSE [t EXCEPT !.pc = "done", !.exc = e]

\* the return is missing: the task falls through to task.retry
TaskReturnFallsThrough(t) == TaskRetry(t, "none")

\* return {...}: the task ends without an exception
TaskReturn(t) == [t EXCEPT !.pc = "done", !.exc = "none"]

\* ------------------------------ Redis pub/sub (redis_client.py:92-108)
\* a subscription exists from redis_client.subscribe until pubsub.unsubscribe
Subscribed(n) == n_pc[n] \in {"poll", "recv", "gone"}

\* the message of one publish call; the channel "user_notifications:{id}" is
\* named by its user id and id numbers the publish calls
Message(channel, type, a) ==
    [id |-> published + 1, channel |-> channel, type |-> type, analysis_id |-> a]

\* PUBLISH hands the message to every subscription of every channel, and
\* keeps it for later subscribers
PublishToAll(msg) ==
    /\ published' = published + 1
    /\ pubsub' = [n \in NConns |-> IF n_pc[n] # "closed"
                                   THEN Append(pubsub[n], msg) ELSE pubsub[n]]

\* redis_client.publish: PUBLISH hands the message to the subscriptions that
\* exist on the channel at this moment and to nothing else
Publish(msg) ==
    /\ published' = published + 1
    /\ pubsub' = [n \in NConns |-> IF Subscribed(n) /\ n_user[n] = msg.channel
                                   THEN Append(pubsub[n], msg) ELSE pubsub[n]]

\* one run of the task body for job a and the messages it published
TaskRun(a, msgs) == [op |-> "analyze_video", analysis_id |-> a, published |-> msgs]

TotalRuns ==
    LET RECURSIVE Sum(_)
        Sum(S) == IF S = {} THEN 0
                  ELSE LET a == CHOOSE x \in S : TRUE IN runs[a] + Sum(S \ {a})
    IN Sum(DOMAIN runs)

\* tasks.py:276-301: load the record, set it running, commit, notify
task_start(a) ==
    /\ a \in DOMAIN exec
    /\ exec[a].pc = "queued"
    /\ TotalRuns < MaxRuns
    /\ runs' = [runs EXCEPT ![a] = @ + 1]
    /\ IF a \notin DOMAIN analyses
       THEN \* return {"error": "Analysis not found"}
            /\ exec' = [exec EXCEPT ![a] = TaskReturn(@)]
            /\ last' = TaskRun(a, <<>>)
            /\ UNCHANGED <<analyses, published, pubsub>>
       ELSE LET msg == Message(videos[analyses[a].video_id].user_id,
                               "analysis_started", a)
            IN /\ analyses' = [analyses EXCEPT ![a].status = "running"]
               /\ exec' = [exec EXCEPT ![a].pc = "running"]
               /\ Publish(msg)
               /\ last' = TaskRun(a, <<msg>>)
    /\ UNCHANGED <<now, videos, seq, upload_vars, creating, deleting,
                   n_pc, n_user, got, n_since, active_connections>>

\* tasks.py:276-293, the first half of task_start: load the record, set it
\* running and commit; the handler is then at the await of the publish
task_commit_running(a) ==
    /\ a \in DOMAIN exec
    /\ exec[a].pc = "queued"
    /\ TotalRuns < MaxRuns
    /\ runs' = [runs EXCEPT ![a] = @ + 1]
    /\ IF a \notin DOMAIN analyses
       THEN /\ exec' = [exec EXCEPT ![a] = TaskReturn(@)]
            /\ UNCHANGED analyses
       ELSE /\ analyses' = [analyses EXCEPT ![a].status = "running"]
            /\ exec' = [exec EXCEPT ![a].pc = "committed"]
    /\ last' = TaskRun(a, <<>>)
    /\ UNCHANGED <<now, videos, seq, upload_vars, creating, deleting, notif_vars,
                   active_connections>>

\* tasks.py:295-301, the second half of task_start: publish analysis_started
\* to the user of the video object loaded with the record
task_publish_started(a) ==
    /\ a \in DOMAIN exec
    /\ exec[a].pc = "committed"
    /\ a \in DOMAIN analyses
    /\ LET msg == Message(videos[analyses[a].video_id].user_id, "analysis_started", a)
       IN /\ Publish(msg)
          /\ last' = TaskRun(a, <<msg>>)
    /\ exec' = [exec EXCEPT ![a].pc = "running"]
    /\ UNCHANGED <<now, videos, seq, upload_vars, analyses, creating, deleting, runs,
                   n_pc, n_user, got, n_since, active_connections>>

\* ---------------------------------- VideoAnalyzer (tasks.py:49-261)
\* every analysis_type that has a branch of its own in the analyzer
AnalyzerTypes == {"metadata_extraction", "scene_detection", "motion_analysis",
                  "quality_assessment"}

\* how the analysis of a file can go: well; the file cannot be probed or
\* opened; the computation of the analysis type breaks on its frames
AnalysisRuns == {"ok", "unreadable", "computation"}

\* extract_metadata and analyze_content log and re-raise (tasks.py:75-77,
\* 137-139); _analyze_motion and _assess_quality catch what breaks inside
\* them and return a dict with the key "error" (tasks.py:220-222, 259-261)
VideoAnalyzer(analysis_type, run) ==
    IF run = "ok"
    THEN [raises |-> FALSE, result_data |-> "result_data"]
    ELSE IF run = "computation"
            /\ analysis_type \in {"motion_analysis", "quality_assessment"}
    THEN [raises |-> FALSE, result_data |-> "error_dict"]
    ELSE [raises |-> TRUE, result_data |-> "null"]

\* tasks.py:323-370: record what the analyzer returned or raised
task_record(a, raises, result_data) ==
    /\ a \in DOMAIN exec
    /\ exec[a].pc = "running"
    /\ IF a \notin DOMAIN analyses
       THEN \* the UPDATE matches no row (StaleDataError) and the task retries
            /\ exec' = [exec EXCEPT ![a] = TaskRetry(@, "StaleDataError")]
            /\ last' = TaskRun(a, <<>>)
            /\ UNCHANGED <<analyses, published, pubsub>>
       ELSE LET msg == Message(videos[analyses[a].video_id].user_id,
                               IF raises THEN "analysis_failed"
                               ELSE "analysis_completed", a)
            IN /\ IF raises
                  THEN /\ analyses' = [analyses EXCEPT ![a].status = "failed",
                                                       ![a].error_message = "str(e)"]
                       /\ exec' = [exec EXCEPT ![a] = TaskRetry(@, "analyzer")]
                  ELSE /\ analyses' = [analyses EXCEPT ![a].status = "completed",
                                                       ![a].result = result_data]
                       /\ exec' = [exec EXCEPT ![a] = TaskReturn(@)]
               /\ Publish(msg)
               /\ last' = TaskRun(a, <<msg>>)
    /\ UNCHANGED <<now, videos, seq, upload_vars, creating, deleting, runs,
                   n_pc, n_user, got, n_since, active_connections>>

\* tasks.py:303-370: the analyzer returns or raises; record the outcome
task_finish(a, raises) == task_record(a, raises, "result_data")

\* tasks.py:303-370 with the analyzer of tasks.py:49-261 run on the file
task_analyze(a, run) ==
    LET type == IF a \in DOMAIN analyses THEN analyses[a].analysis_type
                ELSE "metadata_extraction"
        out  == VideoAnalyzer(type, run)
    IN task_record(a, out.raises, out.result_data)

\* the worker process dies while the task body runs. The task message was
\* acknowledged when the worker took it and no time limit is configured
\* (tasks.py:26-30, 266), so nothing delivers the task again.
worker_crash(a) ==
    /\ a \in DOMAIN exec
    /\ exec[a].pc = "running"
    /\ exec' = [exec EXCEPT ![a].pc = "lost"]
    /\ last' = NoRequest
    /\ UNCHANGED <<now, videos, seq, upload_vars, notif_vars, active_connections, analyses, creating,
                   deleting, runs>>

\* ------------------------ DELETE /analysis/{analysis_id} (analysis.py:98-130)
\* analysis.py:104-125: load the record and refuse if it is pending/running
\* the same with a check that lets a pending record through
delete_analysis_check_running_only(user, a) ==
    /\ a \in 1..MaxJobs
    /\ IF a \notin DOMAIN analyses \/ videos[analyses[a].video_id].user_id # user
       THEN /\ last' = [op |-> "delete_analysis", analysis_id |-> a, code |-> 404]
            /\ UNCHANGED deleting
       ELSE IF analyses[a].status \in {"running"}
       THEN /\ last' = [op |-> "delete_analysis", analysis_id |-> a, code |-> 400]
            /\ UNCHANGED deleting
       ELSE /\ deleting' = deleting \cup {a}
            /\ last' = NoRequest
    /\ UNCHANGED <<now, videos, seq, upload_vars, notif_vars, active_connections, analyses, creating, exec, runs>>

delete_analysis_check(user, a) ==
    /\ a \in 1..MaxJobs
    /\ IF a \notin DOMAIN analyses \/ videos[analyses[a].video_id].user_id # user
       THEN /\ last' = [op |-> "delete_analysis", analysis_id |-> a, code |-> 404]
            /\ UNCHANGED deleting
       ELSE IF analyses[a].status \in {"pending", "running"}
       THEN /\ last' = [op |-> "delete_analysis", analysis_id |-> a, code |-> 400]
            /\ UNCHANGED deleting
       ELSE /\ deleting' = deleting \cup {a}
            /\ last' = NoRequest
    /\ UNCHANGED <<now, videos, seq, upload_vars, notif_vars, active_connections, analyses, creating, exec, runs>>

\* analysis.py:127-130: delete and commit
delete_analysis_commit(a) ==
    /\ a \in deleting
    /\ deleting' = deleting \ {a}
    /\ IF a \in DOMAIN analyses
       THEN /\ analyses' = [b \in DOMAIN analyses \ {a} |-> analyses[b]]
            /\ last' = [op |-> "delete_analysis", analysis_id |-> a, code |-> 200]
       ELSE \* the DELETE matches no row (StaleDataError)
            /\ last' = [op |-> "delete_analysis", analysis_id |-> a, code |-> 500]
            /\ UNCHANGED analyses
    /\ UNCHANGED <<now, videos, seq, upload_vars, notif_vars, active_connections, creating, exec, runs>>

\* ------------------------------ DELETE /videos/{video_id} (videos.py:71-94)
\* the analyses go with the video: cascade="all, delete-orphan" (models.py:48)
delete_video(user, video_id) ==
    /\ IF video_id \notin DOMAIN videos \/ videos[video_id].user_id # user
       THEN /\ last' = [op |-> "delete_video", video_id |-> video_id, code |-> 404]
            /\ UNCHANGED <<videos, analyses>>
       ELSE /\ videos' = [v \in DOMAIN videos \ {video_id} |-> videos[v]]
            /\ analyses' = [a \in {b \in DOMAIN analyses : analyses[b].video_id # video_id}
                               |-> analyses[a]]
            /\ last' = [op |-> "delete_video", video_id |-> video_id, code |-> 200]
    /\ UNCHANGED <<now, seq, upload_vars, notif_vars, active_connections, creating, deleting, exec, runs>>

\* ------------------------------------------------------------ specification
\* --------------- WS /notifications/{user_token} (websocket.py:207-261)
\* what verify_token makes of the token in the URL: a user id, or it raises
NUsers == {"u1", "u2"}
TokenOutcomes == NUsers \cup {"invalid"}

\* a handler that accepts and registers before it looks at the token
notifications_connect_registers_first(n, outcome) ==
    /\ n_pc[n] = "idle"
    /\ \A m \in NConns : m < n => n_pc[m] # "idle"
    /\ IF outcome = "invalid"
       THEN /\ n_pc' = SetConn(n_pc, n, "closed")
            /\ got' = SetConn(got, n, <<[type |-> "close", code |-> 4001]>>)
            /\ active_connections' =
                  ManagerConnect(active_connections, NotificationsClient(outcome), n)
            /\ UNCHANGED <<n_user, n_since>>
       ELSE /\ n_pc' = SetConn(n_pc, n, "poll")
            /\ n_user' = SetConn(n_user, n, outcome)
            /\ active_connections' =
                  ManagerConnect(active_connections, NotificationsClient(outcome), n)
            /\ n_since' = SetConn(n_since, n, published)
            /\ got' = SetConn(got, n, <<[type |-> "connected"]>>)
    /\ last' = NoRequest
    /\ UNCHANGED <<now, videos, seq, upload_vars, job_vars, pubsub, published>>

\* websocket.py:208-227: verify the token, accept, subscribe, greet
notifications_connect(n, outcome) ==
    /\ n_pc[n] = "idle"
    /\ \A m \in NConns : m < n => n_pc[m] # "idle"
    /\ IF outcome = "invalid"
       THEN /\ n_pc' = SetConn(n_pc, n, "closed")
            /\ got' = SetConn(got, n, <<[type |-> "close", code |-> 4001]>>)
            /\ UNCHANGED <<n_user, n_since, active_connections>>
       ELSE /\ n_pc' = SetConn(n_pc, n, "poll")
            /\ n_user' = SetConn(n_user, n, outcome)
            /\ active_connections' =
                  ManagerConnect(active_connections, NotificationsClient(outcome), n)
            /\ n_since' = SetConn(n_since, n, published)
            /\ got' = SetConn(got, n, <<[type |-> "connected"]>>)
    /\ last' = NoRequest
    /\ UNCHANGED <<now, videos, seq, upload_vars, job_vars, pubsub, published>>

\* websocket.py:231-237: one pubsub.get_message(timeout=1.0) and the relay of
\* what it returned. Once the client has left, send_text on the dead socket
\* either raises, which ends the loop (websocket.py:251-261), or is dropped
\* by the server, so the loop goes on.
notifications_poll(n, send_raises) ==
    /\ n_pc[n] \in {"poll", "gone"}
    /\ IF pubsub[n] = <<>>
       THEN /\ n_pc[n] = "poll"
            /\ ~send_raises
            /\ n_pc' = SetConn(n_pc, n, "recv")
            /\ UNCHANGED <<pubsub, got, active_connections>>
       ELSE IF n_pc[n] = "poll"
       THEN /\ ~send_raises
            /\ got' = SetConn(got, n, Append(got[n],
                           [type |-> "notification", data |-> Head(pubsub[n])]))
            /\ pubsub' = SetConn(pubsub, n, Tail(pubsub[n]))
            /\ n_pc' = SetConn(n_pc, n, "recv")
            /\ UNCHANGED active_connections
       ELSE /\ pubsub' = SetConn(pubsub, n, IF send_raises THEN <<>> ELSE Tail(pubsub[n]))
            /\ n_pc' = SetConn(n_pc, n, IF send_raises THEN "closed" ELSE "gone")
            /\ active_connections' =
                  IF send_raises
                  THEN ManagerDisconnect(active_connections, NotificationsClient(n_user[n]))
                  ELSE active_connections
            /\ UNCHANGED got
    /\ last' = NoRequest
    /\ UNCHANGED <<now, videos, seq, upload_vars, job_vars, n_user, n_since, published>>

\* websocket.py:239-246: receive_text returns the next frame of the client,
\* whatever it is; the handler waits here until there is one
notifications_receive(n) ==
    /\ n_pc[n] = "recv"
    /\ n_pc' = SetConn(n_pc, n, "poll")
    /\ last' = NoRequest
    /\ UNCHANGED <<now, videos, seq, upload_vars, job_vars, n_user, pubsub, got,
                   n_since, published, active_connections>>

\* the client leaves: receive_text raises inside the bare except
\* (websocket.py:240-246) and the loop goes on
notifications_disconnect(n) ==
    /\ n_pc[n] \in {"poll", "recv"}
    /\ n_pc' = SetConn(n_pc, n, "gone")
    /\ last' = NoRequest
    /\ UNCHANGED <<now, videos, seq, upload_vars, job_vars, n_user, pubsub, got,
                   n_since, published, active_connections>>

NextUpload ==
    \/ Tick
    \/ \E u \in Users, fs \in FileSizes, cs \in ChunkSizes : create_upload_session(u, fs, cs)
    \/ \E u \in Users,  t \in Tokens : cancel_upload_session(u, t)
    \/ \E c \in Conns,  t \in Tokens : websocket_upload_connect(c, t)
    \/ \E c \in Conns, i \in 0..MaxIndex, d \in ClientData : chunk_frame(c, i, d)
    \/ \E c \in Conns : cancel_frame(c)
    \/ \E c \in Conns : websocket_disconnect(c)

SpecUpload == Init /\ [][NextUpload]_vars

\* uploads to sessions of three chunks
NextResume ==
    \/ Tick
    \/ \E u \in Users : create_upload_session(u, 5, 2)
    \/ \E u \in Users, t \in Tokens : cancel_upload_session(u, t)
    \/ \E c \in Conns, t \in Tokens : websocket_upload_connect(c, t)
    \/ \E c \in Conns, i \in 0..MaxIndex, d \in ClientData : chunk_frame(c, i, d)
    \/ \E c \in Conns : cancel_frame(c)
    \/ \E c \in Conns : websocket_disconnect(c)

SpecResume == Init /\ [][NextResume]_vars

\* every kind of frame a client can send on an upload connection
NextFrames ==
    \/ \E u \in Users, fs \in FileSizes, cs \in ChunkSizes : create_upload_session(u, fs, cs)
    \/ \E c \in Conns, t \in Tokens : websocket_upload_connect(c, t)
    \/ \E c \in Conns, i \in 0..MaxIndex, d \in ClientData : chunk_frame(c, i, d)
    \/ \E c \in Conns : cancel_frame(c)
    \/ \E c \in Conns : unknown_frame(c)
    \/ \E c \in Conns : websocket_disconnect(c)

SpecFrames == Init /\ [][NextFrames]_vars

\* one-chunk sessions, with the end of an upload in two steps: up to the
\* commit, and from the upload_complete frame on
NextComplete ==
    \/ \E u \in Users : create_upload_session(u, 1, 2)
    \/ \E c \in Conns, t \in Tokens : websocket_upload_connect(c, t)
    \/ \E c \in Conns, i \in 0..MaxIndex, d \in ClientData : chunk_frame_upto(c, i, d, FALSE)
    \/ \E c \in Conns : chunk_complete_send(c)
    \/ \E c \in Conns : cancel_frame(c)
    \/ \E c \in Conns : websocket_disconnect(c)

SpecComplete == Init /\ [][NextComplete]_vars

\* uploads to sessions opened for an empty file
NextEmptyFile ==
    \/ \E u \in Users : create_upload_session(u, 0, 2)
    \/ \E c \in Conns, t \in Tokens : websocket_upload_connect(c, t)
    \/ \E c \in Conns, i \in 0..MaxIndex, d \in ClientData : chunk_frame(c, i, d)
    \/ \E c \in Conns : cancel_frame(c)
    \/ \E c \in Conns : websocket_disconnect(c)

SpecEmptyFile == Init /\ [][NextEmptyFile]_vars

\* the clock goes on whatever the clients do
SpecUploadFair == SpecUpload /\ WF_vars(Tick)

\* opening and attaching to sessions, with every size a request can carry
NextOpen ==
    \/ Tick
    \/ \E u \in Users, fs \in AnyFileSizes, cs \in AnyChunkSizes :
          create_upload_session(u, fs, cs)
    \/ \E u \in Users, t \in Tokens : cancel_upload_session(u, t)
    \/ \E c \in Conns, t \in Tokens : websocket_upload_connect(c, t)
    \/ \E c \in Conns : websocket_disconnect(c)

SpecOpen == Init /\ [][NextOpen]_vars

NextJobs ==
    \/ \E u \in Users, iv \in BOOLEAN : simple_upload(u, iv)
    \/ \E u \in Users, v \in StoredVideos, t \in AnalysisTypes : create_analysis_check(u, v, t)
    \/ \E r \in BagToSet(creating) : create_analysis_insert(r)
    \/ \E a \in 1..MaxJobs : task_start(a)
    \/ \E a \in 1..MaxJobs, raises \in BOOLEAN : task_finish(a, raises)
    \/ \E u \in Users, a \in 1..MaxJobs : delete_analysis_check(u, a)
    \/ \E a \in 1..MaxJobs : delete_analysis_commit(a)
    \/ \E u \in Users, v \in StoredVideos : delete_video(u, v)

SpecJobs == Init /\ [][NextJobs]_vars

\* jobs of every analysis type, on files the analyzer can and cannot handle
NextAnalyzer ==
    \/ \E u \in Users : simple_upload(u, TRUE)
    \/ \E u \in Users, v \in StoredVideos, t \in AnalyzerTypes : create_analysis_check(u, v, t)
    \/ \E r \in BagToSet(creating) : create_analysis_insert(r)
    \/ \E a \in 1..MaxJobs : task_start(a)
    \/ \E a \in 1..MaxJobs, run \in AnalysisRuns : task_analyze(a, run)

SpecAnalyzer == Init /\ [][NextAnalyzer]_vars

\* the worker with the commit and the publish of a start as separate steps,
\* on jobs that succeed and are not deleted
NextCommitPublish ==
    \/ \E u \in Users : simple_upload(u, TRUE)
    \/ \E u \in Users, v \in StoredVideos, t \in AnalysisTypes : create_analysis_check(u, v, t)
    \/ \E r \in BagToSet(creating) : create_analysis_insert(r)
    \/ \E a \in 1..MaxJobs : task_commit_running(a)
    \/ \E a \in 1..MaxJobs : task_publish_started(a)
    \/ \E a \in 1..MaxJobs : task_finish(a, FALSE)

SpecCommitPublish == Init /\ [][NextCommitPublish]_vars

\* two users asking for analyses of a video that one of them owns
NextOwners ==
    \/ \E u \in NUsers : simple_upload(u, TRUE)
    \/ \E u \in NUsers, v \in StoredVideos, t \in AnalysisTypes : create_analysis_check(u, v, t)
    \/ \E r \in BagToSet(creating) : create_analysis_insert(r)
    \/ \E a \in 1..MaxJobs : task_start(a)
    \/ \E a \in 1..MaxJobs, raises \in BOOLEAN : task_finish(a, raises)
    \/ \E u \in NUsers, v \in StoredVideos : delete_video(u, v)

SpecOwners == Init /\ [][NextOwners]_vars

\* analysis jobs of one type on workers that can die
NextCrash ==
    \/ \E u \in Users : simple_upload(u, TRUE)
    \/ \E u \in Users, v \in StoredVideos :
          create_analysis_check(u, v, "metadata_extraction")
    \/ \E r \in BagToSet(creating) : create_analysis_insert(r)
    \/ \E a \in 1..MaxJobs : task_start(a)
    \/ \E a \in 1..MaxJobs, raises \in BOOLEAN : task_finish(a, raises)
    \/ \E a \in 1..MaxJobs : worker_crash(a)

\* the request handlers and the workers that are alive are scheduled
SpecCrashFair ==
    /\ Init /\ [][NextCrash]_vars
    /\ WF_vars(\E r \in BagToSet(creating) : create_analysis_insert(r))
    /\ WF_vars(\E a \in 1..MaxJobs : task_start(a))
    /\ WF_vars(\E a \in 1..MaxJobs, raises \in BOOLEAN : task_finish(a, raises))

\* the notification connections, together with analysis jobs of one type
\* whose analyzer succeeds (failures and retries are explored by SpecJobs);
\* the worker runs the tasks of the first two jobs
NotifiedJobs == {1, 2}

NextNotify ==
    \/ \E u \in Users : simple_upload(u, TRUE)
    \/ \E u \in Users, v \in StoredVideos :
          create_analysis_check(u, v, "metadata_extraction")
    \/ \E r \in BagToSet(creating) : create_analysis_insert(r)
    \/ \E a \in NotifiedJobs : task_start(a)
    \/ \E a \in NotifiedJobs : task_finish(a, FALSE)
    \/ \E n \in NConns, o \in TokenOutcomes : notifications_connect(n, o)
    \/ \E n \in NConns, send_raises \in BOOLEAN : notifications_poll(n, send_raises)
    \/ \E n \in NConns : notifications_receive(n)
    \/ \E n \in NConns : notifications_disconnect(n)

SpecNotify == Init /\ [][NextNotify]_vars

\* one-chunk uploads together with the analysis jobs of the stored videos
NextPipeline ==
    \/ \E u \in Users : create_upload_session(u, 1, 2)
    \/ \E c \in Conns, t \in Tokens : websocket_upload_connect(c, t)
    \/ \E c \in Conns, i \in 0..MaxIndex, d \in ClientData : chunk_frame(c, i, d)
    \/ \E u \in Users, v \in StoredVideos :
          create_analysis_check(u, v, "metadata_extraction")
    \/ \E r \in BagToSet(creating) : create_analysis_insert(r)
    \/ \E a \in NotifiedJobs : task_start(a)
    \/ \E a \in NotifiedJobs : task_finish(a, FALSE)

\* the worker and the request handlers are scheduled; the clients are free
SpecPipelineFair ==
    /\ Init /\ [][NextPipeline]_vars
    /\ WF_vars(\E r \in BagToSet(creating) : create_analysis_insert(r))
    /\ WF_vars(\E a \in NotifiedJobs : task_start(a))
    /\ WF_vars(\E a \in NotifiedJobs : task_finish(a, FALSE))

\* what the server does on its own is scheduled: the worker runs queued
\* tasks, a request handler reaches its insert, and get_message returns within
\* its timeout. What a client does (connect, send a frame, leave, submit a
\* request) is up to the client.
SpecNotifyFair ==
    /\ SpecNotify
    /\ WF_vars(\E r \in BagToSet(creating) : create_analysis_insert(r))
    /\ WF_vars(\E a \in NotifiedJobs : task_start(a))
    /\ WF_vars(\E a \in NotifiedJobs : task_finish(a, FALSE))
    /\ WF_vars(\E n \in NConns, send_raises \in BOOLEAN : notifications_poll(n, send_raises))

\* ===================================================================== claims
\* helpers over the frames a client has sent on one connection
WellFormedChunk(f) == f.type = "chunk" /\ f.chunk_data = b64encode(f.bytes)

Indices(log) == {log[n].chunk_index : n \in 1..Len(log)}

TotalOf(c) == sessions[c_tok[c]].total_chunks

Attached(c) == c_pc[c] # "idle" /\ c_tok[c] \in DOMAIN sessions

Completed(c) == \E v \in DOMAIN videos : videos[v].file = c

\* the log sends every index of 0..total-1 exactly once, each well formed
IsPermutation(log, total) ==
    /\ total >= 1
    /\ Len(log) = total
    /\ \A n \in 1..Len(log) : WellFormedChunk(log[n])
    /\ Indices(log) = 0..(total - 1)

\* the log is the beginning of such a permutation, some index still missing
IsPartialPermutation(log, total) ==
    /\ Len(log) < total
    /\ \A n \in 1..Len(log) : WellFormedChunk(log[n]) /\ log[n].chunk_index \in 0..(total - 1)
    /\ Cardinality(Indices(log)) = Len(log)

\* the client's bytes of the last frame that carries index i, if any
LastBytes(log, i) ==
    IF i \in Indices(log)
    THEN LET n == CHOOSE m \in 1..Len(log) :
                     /\ log[m].chunk_index = i
                     /\ \A k \in (m + 1)..Len(log) : log[k].chunk_index # i
         IN log[n].bytes
    ELSE <<>>

\* the client's bytes in ascending index order
RECURSIVE InIndexOrder(_, _, _)
InIndexOrder(log, i, total) ==
    IF i >= total THEN <<>> ELSE LastBytes(log, i) \o InIndexOrder(log, i + 1, total)

\* C1: on one connection, for every arrival order of the indices
\* 0..total_chunks-1, the stored file is written exactly when the last missing
\* index arrives and its bytes are the client's chunks concatenated in
\* ascending index order.
C1_AssembledInIndexOrder ==
    \A c \in Conns : Attached(c) =>
        /\ IsPermutation(sent[c], TotalOf(c)) =>
              /\ Completed(c)
              /\ files[c] = InIndexOrder(sent[c], 0, TotalOf(c))
        /\ IsPartialPermutation(sent[c], TotalOf(c)) =>
              /\ ~Completed(c)
              /\ files[c] = <<>>

\* C1 witness: both chunks of a two-chunk session arrived, index 1 first
C1_Witness ==
    \E c \in Conns :
        /\ Attached(c)
        /\ TotalOf(c) = 2
        /\ IsPermutation(sent[c], 2)
        /\ sent[c][1].chunk_index = 1
        /\ sent[c][1].bytes # sent[c][2].bytes
        /\ Completed(c)

\* the step is a well-formed chunk frame on c whose index c already holds
IsResend(c) ==
    /\ Len(sent'[c]) = Len(sent[c]) + 1
    /\ WellFormedChunk(sent'[c][Len(sent'[c])])
    /\ sent'[c][Len(sent'[c])].chunk_index \in received_chunks[c]

\* C2: re-sending an index a connection already received does not change the
\* received count (local or persisted uploaded_chunks), replaces the buffered
\* bytes of that index by the new ones, and the file finally assembled holds,
\* for each index, the bytes of the last frame sent for it.
C2_ResendIsIdempotent ==
    [][\A c \in Conns :
        /\ IsResend(c) =>
              LET f == sent'[c][Len(sent'[c])] IN
              /\ received_chunks'[c] = received_chunks[c]
              /\ sessions'[c_tok[c]].uploaded_chunks = sessions[c_tok[c]].uploaded_chunks
              /\ reply'[c] = <<[type |-> "progress", chunk_index |-> f.chunk_index,
                                uploaded_chunks |-> Cardinality(received_chunks[c]),
                                total_chunks |-> TotalOf(c)]>>
              /\ DictKeys(chunk_data'[c]) = DictKeys(chunk_data[c])
              /\ DictGet(chunk_data'[c], f.chunk_index) = f.bytes
        /\ (Attached(c) /\ Completed(c))' =>
              files'[c] = InIndexOrder(sent'[c], 0, TotalOf(c))
      ]_vars

\* C2 witness: a completed two-chunk upload in which one index was sent twice
\* with different bytes
C2_Witness ==
    \E c \in Conns :
        /\ Attached(c)
        /\ Completed(c)
        /\ TotalOf(c) = 2
        /\ \E m, n \in 1..Len(sent[c]) :
              /\ m < n
              /\ sent[c][m].chunk_index = sent[c][n].chunk_index
              /\ sent[c][m].bytes # sent[c][n].bytes

\* --------------------------------------------------------- session status
\* C8: once a session is completed, cancelled or expired its status never
\* changes again.
C8_TerminalStatusIsFinal ==
    [][\A t \in DOMAIN sessions :
          sessions[t].status \in {"completed", "cancelled", "expired"}
              => sessions'[t].status = sessions[t].status
      ]_vars

\* the step answers a cancel request for an existing session of the caller
CancelAnswered(t) ==
    /\ last' # last
    /\ last'.op = "cancel_upload_session"
    /\ last'.token = t
    /\ last'.code # 404

\* C9: a cancel request succeeds only on an active session, which it leaves
\* cancelled with its buffered chunks discarded; on any other session it
\* fails with InvalidState (400) and changes nothing.
C9_CancelOnlyWhileActive ==
    [][\A t \in DOMAIN sessions : CancelAnswered(t) =>
          IF sessions[t].status = "active"
          THEN /\ last'.code = 200
               /\ sessions'[t].status = "cancelled"
               /\ \A c \in Conns : c_tok[c] = t => chunk_data'[c] = <<>>
          ELSE /\ last'.code = 400
               /\ sessions' = sessions
      ]_vars

\* the step is a chunk frame on c
IsChunkStep(c) ==
    /\ Len(sent'[c]) = Len(sent[c]) + 1
    /\ sent'[c][Len(sent'[c])].type = "chunk"

\* C10: a chunk sent after expires_at is answered with the error "Session
\* expired" and not counted, and the session is expired from then on.
C10_ExpiredRejectsChunks ==
    [][\A c \in Conns : (IsChunkStep(c) /\ sessions[c_tok[c]].expires_at < now) =>
          LET f == sent'[c][Len(sent'[c])] IN WellFormedChunk(f) =>
          /\ reply'[c] = <<[type |-> "error", message |-> "Session expired"]>>
          /\ received_chunks'[c] = received_chunks[c]
          /\ sessions'[c_tok[c]].uploaded_chunks = sessions[c_tok[c]].uploaded_chunks
          /\ sessions'[c_tok[c]].status = "expired"
      ]_vars

\* ------------------------------------------------------------ analysis jobs
SameSubject(a, b) ==
    /\ analyses[a].video_id = analyses[b].video_id
    /\ analyses[a].analysis_type = analyses[b].analysis_type

\* C3: at most one VideoAnalysis record per (video_id, analysis_type) has
\* status pending or running.
C3_AtMostOneInFlight ==
    \A a, b \in DOMAIN analyses :
        ( /\ SameSubject(a, b)
          /\ analyses[a].status \in {"pending", "running"}
          /\ analyses[b].status \in {"pending", "running"} ) => a = b

\* the step answers a create_analysis request
CreateAnswered == last'.op = "create_analysis" /\ last' # last

\* C4: a submission answered while a job of the same (video_id,
\* analysis_type) is pending or running gets a Conflict (409) that names that
\* job and creates no record; a submission answered with success has created
\* a pending job.
C4_DuplicateIsConflict ==
    [][CreateAnswered =>
        /\ InFlight(last'.video_id, last'.analysis_type) # {} =>
              /\ last'.code = 409
              /\ last'.analysis_id \in InFlight(last'.video_id, last'.analysis_type)
              /\ analyses' = analyses
        /\ InFlight(last'.video_id, last'.analysis_type) = {} /\ last'.code = 200 =>
              /\ last'.analysis_id \in DOMAIN analyses' \ DOMAIN analyses
              /\ analyses'[last'.analysis_id].status = "pending"
      ]_vars

\* C5: a job becomes running only from pending.
C5_RunningOnlyFromPending ==
    [][\A a \in DOMAIN analyses \cap DOMAIN analyses' :
          (analyses'[a].status = "running" /\ analyses[a].status # "running")
              => analyses[a].status = "pending"
      ]_vars

\* the task of a has used up its retries on analyzer failures
Exhausted(a) ==
    /\ a \in DOMAIN exec
    /\ exec[a].pc = "done"
    /\ exec[a].exc = "analyzer"

DeleteAnswered ==
    /\ last' # last
    /\ last'.op \in {"delete_analysis", "delete_video"}
    /\ last'.code = 200

\* C7: a completed job never changes its status, result or error_message,
\* and its record disappears only in a step that is a successful delete
\* request (of the job or of its video).
C7_CompletedIsFinal ==
    [][\A a \in DOMAIN analyses : analyses[a].status = "completed" =>
          IF a \in DOMAIN analyses'
          THEN analyses'[a] = analyses[a]
          ELSE DeleteAnswered
      ]_vars

\* C7 witness: a job completed by a retry, with other requests still open
C7_Witness ==
    \E a \in DOMAIN analyses :
        /\ analyses[a].status = "completed"
        /\ runs[a] >= 2
        /\ exec[a].pc = "done"

\* ------------------------------------------------------ chunk index range
\* the step is a well-formed chunk frame on c whose index is outside
\* [0, total_chunks)
IsOutOfRangeChunk(c) ==
    /\ IsChunkStep(c)
    /\ WellFormedChunk(sent'[c][Len(sent'[c])])
    /\ sent'[c][Len(sent'[c])].chunk_index \notin 0..(TotalOf(c) - 1)

\* C11: a chunk whose index is outside [0, total_chunks) is answered with an
\* OutOfRange error; it is not buffered, not added to the received set,
\* uploaded_chunks is unchanged and the completion check does not fire.
C11_OutOfRangeRejected ==
    [][\A c \in Conns : IsOutOfRangeChunk(c) =>
          /\ Len(reply'[c]) = 1
          /\ reply'[c][1].type = "error"
          /\ chunk_data'[c] = chunk_data[c]
          /\ received_chunks'[c] = received_chunks[c]
          /\ sessions'[c_tok[c]].uploaded_chunks = sessions[c_tok[c]].uploaded_chunks
          /\ videos' = videos
          /\ sessions'[c_tok[c]].status = sessions[c_tok[c]].status
      ]_vars

\* -------------------------------------------------------- opening a session
\* the step answers a request to open an upload session
OpenAnswered == last' # last /\ last'.op = "create_upload_session"

\* ceil(a / b) for positive a and b
CeilDiv(a, b) == CHOOSE q \in 1..a : (q - 1) * b < a /\ a <= q * b

\* C12: opening a session with file_size <= 0 or chunk_size <= 0 fails with
\* InvalidRequest (a 4xx answer) and persists nothing; a session that is
\* persisted has total_chunks = ceil(file_size / chunk_size) >= 1, status
\* active and expires_at = creation time + TTL.
C12_OpenValidatesSizes ==
    [][OpenAnswered =>
        /\ (last'.file_size <= 0 \/ last'.chunk_size <= 0) =>
              /\ last'.code \in {400, 422}
              /\ sessions' = sessions
        /\ \A t \in DOMAIN sessions' \ DOMAIN sessions :
              /\ sessions'[t].file_size > 0
              /\ sessions'[t].chunk_size > 0
              /\ sessions'[t].total_chunks >= 1
              /\ sessions'[t].total_chunks =
                     CeilDiv(sessions'[t].file_size, sessions'[t].chunk_size)
              /\ sessions'[t].status = "active"
              /\ sessions'[t].expires_at = now + SessionTTL
      ]_vars

\* ------------------------------------------------------------ notifications
\* the client of n is connected and has been greeted
Listening(n) == n_pc[n] \in {"poll", "recv"}

\* the ids of the messages in a sequence of messages
Ids(q) == {q[k].id : k \in 1..Len(q)}

\* the messages relayed to the client of n, in the order of their frames
Relayed(n) ==
    LET RECURSIVE Data(_)
        Data(k) == IF k > Len(got[n]) THEN <<>>
                   ELSE (IF got[n][k].type = "notification"
                         THEN <<got[n][k].data>> ELSE <<>>) \o Data(k + 1)
    IN Data(1)

\* the ids of the publish calls: each job run here publishes twice
PublishIds == 1..(2 * Cardinality(NotifiedJobs))

\* C13: a client listening on a user's notifications channel eventually gets
\* a notification frame for every transition published while it listens,
\* whether or not it sends frames itself: a message held by its subscription
\* is relayed unless the client leaves first.
C13_EveryTransitionRelayed ==
    \A n \in NConns : \A i \in PublishIds :
        (Listening(n) /\ i \in Ids(pubsub[n]))
            ~> (~Listening(n) \/ i \in Ids(Relayed(n)))

\* the step changes the status of job a
StatusChanged(a) ==
    /\ a \in DOMAIN analyses
    /\ a \in DOMAIN analyses'
    /\ analyses'[a].status # analyses[a].status

\* the step requeues the task of job a for a retry
Requeued(a) == exec[a].pc = "running" /\ exec'[a].pc = "queued"

\* the notification type that stands for a status
TypeOfStatus(status) ==
    CASE status = "running"   -> "analysis_started"
      [] status = "completed" -> "analysis_completed"
      [] status = "failed"    -> "analysis_failed"
      [] OTHER                -> "none"

\* C14: every status transition of a job and every requeue for a retry
\* publishes exactly one notification that carries the job id, on the topic of
\* the owner of the job's video, within the step that makes the transition;
\* the notification of a status change carries the new status.
C14_OneNotificationPerTransition ==
    [][\A a \in DOMAIN exec :
          LET k == (IF StatusChanged(a) THEN 1 ELSE 0) + (IF Requeued(a) THEN 1 ELSE 0)
          IN k > 0 =>
               /\ last'.op = "analyze_video"
               /\ published' = published + k
               /\ Len(last'.published) = k
               /\ \A m \in 1..Len(last'.published) :
                     /\ last'.published[m].analysis_id = a
                     /\ a \in DOMAIN analyses =>
                           last'.published[m].channel =
                               videos[analyses[a].video_id].user_id
               /\ (k = 1 /\ StatusChanged(a)) =>
                     last'.published[1].type = TypeOfStatus(analyses'[a].status)
      ]_vars

\* the messages n has been handed so far: those relayed, then those waiting
Handed(n) == Relayed(n) \o pubsub[n]

Disconnected(c) == c_pc[c] = "closed" /\ reply[c] = <<>>

\* c and d are upload connections of one session, d the later one, and the
\* client sent chunks on both
Resumed(c, d) ==
    /\ c < d
    /\ Attached(c) /\ Attached(d)
    /\ c_tok[c] = c_tok[d]
    /\ Disconnected(c)
    /\ sent[c] # <<>> /\ sent[d] # <<>>

\* C16: a session survives a disconnect. When a client that was cut off
\* mid-upload sends, on a later connection with the same token, the last of
\* the indices it had not sent before, the upload is complete: the session is
\* completed and the stored file holds the chunks of both connections in
\* index order.
C16_ResumeAfterDisconnect ==
    [][\A c, d \in Conns :
        ( /\ Disconnected(c)
          /\ IsChunkStep(d)
          /\ Resumed(c, d)'
          /\ IsPermutation(sent'[c] \o sent'[d], TotalOf(c)) ) =>
            /\ Completed(d)'
            /\ sessions'[c_tok[d]].status = "completed"
            /\ files'[d] = InIndexOrder(sent'[c] \o sent'[d], 0, TotalOf(c))
      ]_vars

\* C17: while a session is active its persisted uploaded_chunks never
\* decreases, whatever chunk frames, disconnects and reconnects happen.
C17_ProgressOnlyGrows ==
    [][\A t \in DOMAIN sessions :
          (sessions[t].status = "active" /\ sessions'[t].status = "active") =>
              sessions'[t].uploaded_chunks >= sessions[t].uploaded_chunks
      ]_vars

\* -------------------------------------------- several connections, one session
\* the upload connections that were accepted on session t
ConnsOf(t) == {c \in Conns : c_pc[c] # "idle" /\ c_tok[c] = t /\ orm[c].status # ""}

\* the chunk indices accepted for session t over all its connections
AcceptedIndices(t) == UNION {received_chunks[c] : c \in ConnsOf(t)}

\* C18: chunk submissions for one session are serialized: with two or more
\* upload connections open on a session, its persisted uploaded_chunks equals
\* the number of distinct chunk indices accepted for it over all its
\* connections.
C18_NoLostUpdate ==
    \A t \in DOMAIN sessions :
        Cardinality({c \in ConnsOf(t) : c_pc[c] = "open"}) >= 2 =>
            sessions[t].uploaded_chunks = Cardinality(AcceptedIndices(t))

\* C19: a well-formed chunk that arrives on an open upload connection after
\* its session was cancelled is answered with an error; it is not counted, no
\* Video is created and the session stays cancelled.
C19_ChunkAfterCancelRejected ==
    [][\A c \in Conns :
        ( /\ IsChunkStep(c)
          /\ WellFormedChunk(sent'[c][Len(sent'[c])])
          /\ sessions[c_tok[c]].status = "cancelled" ) =>
            /\ Len(reply'[c]) = 1
            /\ reply'[c][1].type = "error"
            /\ sessions'[c_tok[c]].uploaded_chunks = sessions[c_tok[c]].uploaded_chunks
            /\ videos' = videos
            /\ sessions'[c_tok[c]].status = "cancelled"
      ]_vars

\* C20: the chunk that makes the received count reach total_chunks is
\* answered with upload_complete and no progress frame; every other accepted
\* chunk is answered with exactly one progress frame that carries its index,
\* the received count and total_chunks.
C20_CompleteInsteadOfProgress ==
    [][\A c \in Conns :
        (IsChunkStep(c) /\ WellFormedChunk(sent'[c][Len(sent'[c])])) =>
            LET f == sent'[c][Len(sent'[c])] IN
            IF Cardinality(received_chunks'[c]) = orm[c].total_chunks
            THEN /\ Len(reply'[c]) = 1
                 /\ reply'[c][1].type = "upload_complete"
            ELSE reply'[c] = <<[type |-> "progress", chunk_index |-> f.chunk_index,
                                uploaded_chunks |-> Cardinality(received_chunks'[c]),
                                total_chunks |-> orm[c].total_chunks]>>
      ]_vars

\* ------------------------------------------------- upload to analysis job
\* video v was stored by a completed upload session
StoredByUpload(v) == v \in DOMAIN videos /\ videos[v].file \in Conns

\* a metadata_extraction job of video v has been taken up by a worker
MetadataJobExecuted(v) ==
    \E a \in DOMAIN analyses :
        /\ analyses[a].video_id = v
        /\ analyses[a].analysis_type = "metadata_extraction"
        /\ analyses[a].status # "pending"

\* C21: when an upload session completes, a metadata_extraction job for the
\* stored video is created and eventually leaves pending.
C21_CompletionStartsMetadataJob ==
    \A v \in StoredVideos : StoredByUpload(v) ~> MetadataJobExecuted(v)

\* ------------------------------------------------------------ deleting a job
\* the step answers a delete request for job a with a refusal
DeleteRefused(a) ==
    /\ last' # last
    /\ last'.op = "delete_analysis"
    /\ last'.analysis_id = a
    /\ last'.code \in {400, 404}

\* the step lets a delete request for job a pass the status check
DeleteAdmitted(a) == a \in deleting' /\ a \notin deleting

\* the step is the delete and commit of a request for job a
DeleteCommitted(a) == a \in deleting /\ a \notin deleting'

C23_ExpiredSessionsAreReaped ==
    \A t \in Tokens :
        (t \in DOMAIN sessions /\ sessions[t].status = "active"
                               /\ sessions[t].expires_at < now)
            ~> ( /\ t \in DOMAIN sessions
                 /\ \/ sessions[t].status \in {"completed", "cancelled"}
                    \/ /\ sessions[t].status = "expired"
                       /\ \A c \in Conns : c_tok[c] = t => chunk_data[c] = <<>> )

\* ------------------------------------------------------------ worker crash
\* C24: no job stays running for ever, even when the worker that set it
\* running dies: a running job eventually is completed or failed (or its
\* record is deleted).
C24_NoJobRunsForEver ==
    \A a \in 1..MaxJobs :
        (a \in DOMAIN analyses /\ analyses[a].status = "running")
            ~> ( \/ a \notin DOMAIN analyses
                 \/ analyses[a].status \in {"completed", "failed"} )

\* ------------------------------------------------------ result and reason
\* C25: a job's result is present only if its status is completed and its
\* error_message is present only if its status is failed.
C25_ResultAndReasonMatchStatus ==
    \A a \in DOMAIN analyses :
        /\ analyses[a].result # "null" => analyses[a].status = "completed"
        /\ analyses[a].error_message # "null" => analyses[a].status = "failed"


\* C26: when the client of a notifications connection has left, the handler
\* eventually leaves its listen loop: it reaches its finally clause, where it
\* unsubscribes and takes the connection out of the registry. A handler that
\* has left its loop is "closed"; one that still turns in it is "gone".
C26_DisconnectEndsListenLoop ==
    \A n \in NConns : (n_pc[n] = "gone") ~> (n_pc[n] = "closed")


\* a handler that ended without ever having had a user id: verify_token raised
Refused(n) == n_pc[n] = "closed" /\ n_user[n] = ""

\* the connections the registry holds for notifications clients
RegisteredNotifications ==
    {active_connections[k] : k \in {j \in DOMAIN active_connections : j[1] = "notifications"}}

\* C27: a notifications connection opened with a token that verify_token
\* rejects is closed with code 4001 and nothing else is ever sent on it; it is
\* not in the connection registry and it has no subscription.
C27_BadTokenClosedUnregistered ==
    \A n \in NConns :
        Refused(n) =>
            /\ got[n] = <<[type |-> "close", code |-> 4001]>>
            /\ n \notin RegisteredNotifications
            /\ ~Subscribed(n)
            /\ pubsub[n] = <<>>

\* a refused connection, while notifications are published and another
\* connection is being served
C27_Witness ==
    \E n, m \in NConns :
        /\ Refused(n)
        /\ published > 0
        /\ Len(got[m]) > 1


\* the step handles a chunk frame whose data cannot be decoded
IsMalformedChunk(c) ==
    /\ IsChunkStep(c)
    /\ b64decode(sent'[c][Len(sent'[c])].chunk_data) = B64Error

\* C28: a malformed chunk frame fails only that operation: it is answered
\* with an error frame, the session keeps its status and the connection its
\* received chunks, and the connection stays open for later chunks.
C28_MalformedChunkKeepsConnection ==
    [][\A c \in Conns : IsMalformedChunk(c) =>
          /\ Len(reply'[c]) = 1
          /\ reply'[c][1].type = "error"
          /\ sessions'[c_tok[c]].status = sessions[c_tok[c]].status
          /\ received_chunks'[c] = received_chunks[c]
          /\ c_pc'[c] = "open"
      ]_vars


\* the step handles a frame of the client of c
IsFrameStep(c) == Len(sent'[c]) = Len(sent[c]) + 1

\* the frame was taken as a chunk or as a cancel
FrameAccepted(c) ==
    \E k \in 1..Len(reply'[c]) :
        reply'[c][k].type \in {"progress", "upload_complete", "upload_cancelled"}

\* C29: every frame on an upload connection that is not accepted as a chunk
\* or as a cancel, a frame of unknown type included, is answered with an
\* error frame.
C29_NoFrameSwallowed ==
    [][\A c \in Conns : (IsFrameStep(c) /\ ~FrameAccepted(c)) =>
          /\ Len(reply'[c]) = 1
          /\ reply'[c][1].type = "error"
      ]_vars


\* C30: in every state the persisted uploaded_chunks of a session is at most
\* its total_chunks.
C30_CountWithinTotal ==
    \A t \in DOMAIN sessions :
        sessions[t].uploaded_chunks <= sessions[t].total_chunks

\* --------------------------------------------------------- the resume query
\* the step attaches connection d to session t and announces the session,
\* while no handler holds a chunk buffer for t
IsReattachAfterLoss(d, t) ==
    /\ c_pc[d] = "idle" /\ c_pc'[d] = "open"
    /\ c_tok'[d] = t
    /\ \A c \in Conns : c_tok[c] = t => c_pc[c] # "open"

\* C31: once the chunk buffer of a session is lost with the handler that held
\* it, the session_info of a re-attachment reports zero received chunks: the
\* number of chunks the server still holds.
C31_ResumeReportsHeldChunks ==
    [][\A d \in Conns, t \in Tokens : IsReattachAfterLoss(d, t) =>
          /\ reply'[d][1].type = "session_info"
          /\ reply'[d][1].uploaded_chunks = 0
      ]_vars

\* ------------------------------------------------------ analyzer failures
\* C32: a job is completed only when the analyzer returned a result without
\* failing: a completed job holds the result of an analysis, never the report
\* of a failure, for every analysis type.
C32_CompletedOnlyOnSuccess ==
    \A a \in DOMAIN analyses :
        analyses[a].status = "completed" => analyses[a].result = "result_data"

\* ---------------------------------------------------- who may create a job
\* nothing was admitted, recorded or queued by the step
NothingCreated ==
    /\ creating' = creating
    /\ analyses' = analyses
    /\ exec' = exec

\* C33: create_analysis for a video that does not exist or belongs to another
\* user is answered 404, and for a video whose upload_status is not completed
\* 400; in both cases no record is created and no task is queued.
C33_JobOnlyForOwnCompletedVideo ==
    [][\A u \in NUsers, v \in StoredVideos, t \in AnalysisTypes :
          create_analysis_check(u, v, t) =>
              /\ (v \notin DOMAIN videos \/ videos[v].user_id # u) =>
                     /\ last'.op = "create_analysis" /\ last'.code = 404
                     /\ NothingCreated
              /\ (v \in DOMAIN videos /\ videos[v].user_id = u
                      /\ videos[v].upload_status # "completed") =>
                     /\ last'.op = "create_analysis" /\ last'.code = 400
                     /\ NothingCreated
      ]_vars

\* the video of one user is there, with a job of its owner, and the request
\* of somebody else has just been answered 404
C33_Witness ==
    /\ last.op = "create_analysis" /\ last.code = 404
    /\ last.video_id \in DOMAIN videos
    /\ \E a \in DOMAIN analyses : analyses[a].video_id = last.video_id

\* ------------------------------------------------- publish before commit
\* the status transitions a job record shows to have been committed, for jobs
\* that run once: pending to running, and running to its final status
TransitionsOf(a) ==
    IF analyses[a].status = "running" THEN 1
    ELSE IF analyses[a].status \in {"completed", "failed"} THEN 2
    ELSE 0

TransitionsCommitted ==
    LET RECURSIVE Sum(_)
        Sum(S) == IF S = {} THEN 0
                  ELSE LET a == CHOOSE x \in S : TRUE
                       IN TransitionsOf(a) + Sum(S \ {a})
    IN Sum(DOMAIN analyses)

\* C34: the notification of a status transition is published before the
\* commit of the transition can be observed: every transition that a read of
\* the job records shows has its notification published already.
C34_PublishedBeforeCommitVisible == TransitionsCommitted <= published

\* ------------------------------------------------------ complete means whole
\* C35: when an upload session is completed, the file stored for its Video
\* record holds the bytes of every chunk index in [0, total_chunks): no index
\* of the range is missing from the buffer the file was written from.
C35_CompletedFileIsWhole ==
    \A c \in Conns :
        (Completed(c) /\ sessions[c_tok[c]].status = "completed") =>
            /\ \A i \in 0..(TotalOf(c) - 1) : i \in DictKeys(chunk_data[c])
            /\ files[c] = WriteFile(chunk_data[c], TotalOf(c))

\* ------------------------------------------------ one video per session
\* the Video records created by upload connections of session t
VideosOf(t) ==
    {v \in DOMAIN videos : videos[v].file \in Conns /\ c_tok[videos[v].file] = t}

\* the metadata_extraction triggers published for videos of session t
TriggersOf(t) == {m \in analysis_queue : m.video_id \in VideosOf(t)}

\* C36: at most one Video record and stored file is created per upload
\* session and at most one metadata_extraction trigger is published for it,
\* however many connections are open on its token.
C36_OneVideoPerSession ==
    \A t \in DOMAIN sessions :
        /\ Cardinality(VideosOf(t)) <= 1
        /\ Cardinality(TriggersOf(t)) <= 1

\* ------------------------------------------------- upload_complete is last
\* the step sends an upload_complete frame on connection c
SendsUploadComplete(c) ==
    /\ reply'[c] # reply[c]
    /\ \E k \in 1..Len(reply'[c]) : reply'[c][k].type = "upload_complete"

\* C37: when upload_complete is sent, the stored file is written, the Video
\* record exists and the session record is completed, all committed before;
\* the trigger is published for a committed video only.
C37_CompleteSentAfterCommit ==
    [][\A c \in Conns : SendsUploadComplete(c) =>
          /\ files[c] = WriteFile(chunk_data[c], TotalOf(c))
          /\ \E v \in DOMAIN videos : videos[v].file = c
          /\ sessions[c_tok[c]].status = "completed"
          /\ \A m \in analysis_queue' \ analysis_queue : m.video_id \in DOMAIN videos
      ]_vars

\* ---------------------------------------------------- the connection registry
\* the upload connections the registry holds
RegisteredUploads ==
    {active_connections[k] : k \in {j \in DOMAIN active_connections : j[1] = "upload"}}

\* C38: the registry holds an entry for every accepted connection that has
\* not ended and none for an ended one, also when two connections use one
\* client id: the entry of a live connection is neither removed nor replaced
\* by the other.
C38_RegistryHoldsLiveConnections ==
    /\ \A c \in Conns : c_pc[c] = "open" <=> c \in RegisteredUploads
    /\ \A n \in NConns : Subscribed(n) <=> n \in RegisteredNotifications

\* ------------------------------------------------ running jobs are kept
\* C39: a job record is never removed from the store while its status is
\* running, whatever the interleaving of delete_analysis, delete_video and
\* the runs of analyze_video.
C39_RunningJobNotRemoved ==
    [][\A a \in DOMAIN analyses :
          analyses[a].status = "running" => a \in DOMAIN analyses'
      ]_vars

====
